---- MODULE Spec2Model ----
(***************************************************************************)
(* Model of load.c (UVLoader): the executable loader uvl_load_exe with the *)
(* acquirer uvl_load_file, the release uvl_free_data, the ELF loader       *)
(* uvl_load_elf (header check, module info, address-space reclaimer,       *)
(* segment loader, import resolution loop, entry-point scan) and the       *)
(* import table relocator uvl_offset_import.                               *)
(*                                                                         *)
(* Platform calls (sceIo*, sceKernel*, uvl_resolve_imports) are inputs:    *)
(* each call's outcome is drawn with \E where the call is made.  The image *)
(* on disk is drawn in Init.  A crash inside a platform call or memcpy is  *)
(* the behaviour that stops at that step (no fairness is assumed).         *)
(*                                                                         *)
(* Values that load.c only compares for equality (magic bytes, e_ident     *)
(* fields, p_type, NIDs) are kept symbolic as strings named after the      *)
(* macro; sizes and addresses that load.c computes with are integers of    *)
(* WordBits bits (u32_t in the source, scaled down).                       *)
(***************************************************************************)
EXTENDS Integers, Sequences, FiniteSets, TLC

\* ------------------------------------------------------------------ bounds
\* Width of u32_t in the model (the source has 32).
WordBits == 4
\* log2 of the allocation alignment in the model (the source has 20: 1 MiB).
AlignBits == 2
\* Longest program-header table drawn.
MaxPh == 2
\* Longest list the module-list query hands back.
MaxMods == 2
\* Longest import descriptor run drawn.
MaxImports == 2
\* Relocator: width of a pointer, and the largest table count drawn.
RelocBits == 3
MaxCount == 2

WordMod == 2 ^ WordBits
Align == 2 ^ AlignBits
RMod == 2 ^ RelocBits

\* ------------------------------------------------------- symbolic constants
ELFMAG0 == "ELFMAG0"
ELFMAG1 == "ELFMAG1"
ELFMAG2 == "ELFMAG2"
ELFMAG3 == "ELFMAG3"
SCEMAG0 == "SCEMAG0"
SCEMAG1 == "SCEMAG1"
SCEMAG2 == "SCEMAG2"
SCEMAG3 == "SCEMAG3"
ElfMagic == <<ELFMAG0, ELFMAG1, ELFMAG2, ELFMAG3>>
SceMagic == <<SCEMAG0, SCEMAG1, SCEMAG2, SCEMAG3>>

\* ------------------------------------------------------------ the image
\* Leading four bytes of the file that are drawn.
Magics ==
    { ElfMagic, SceMagic,
      <<ELFMAG0, ELFMAG1, ELFMAG2, "other">>,
      <<ELFMAG0, "other", ELFMAG2, ELFMAG3>>,
      <<SCEMAG0, SCEMAG1, "other", SCEMAG3>>,
      <<"other", "other", "other", "other">> }

\* e_ident[0..3] of the header behind the wrapper header of a wrapped image.
InnerMagics == { ElfMagic, <<ELFMAG0, ELFMAG1, "other", ELFMAG3>> }

GoodHdr ==
    [ class |-> "ELFCLASS32", data |-> "ELFDATA2LSB", identver |-> "EV_CURRENT",
      type |-> "ET_EXEC", machine |-> "EM_ARM", version |-> "EV_CURRENT",
      shoff |-> 1, phoff |-> 1, shstrndx |-> 1 ]

\* The ELF header fields after e_ident[0..3]: the good header, the second
\* accepted file type, and one header per validator check that it fails.
Headers ==
    { GoodHdr,
      [GoodHdr EXCEPT !.type = "ET_SCE_EXEC"],
      [GoodHdr EXCEPT !.class = "ELFCLASS64"],
      [GoodHdr EXCEPT !.data = "ELFDATA2MSB"],
      [GoodHdr EXCEPT !.identver = "EV_NONE"],
      [GoodHdr EXCEPT !.type = "ET_DYN"],
      [GoodHdr EXCEPT !.machine = "EM_386"],
      [GoodHdr EXCEPT !.version = "EV_NONE"],
      [GoodHdr EXCEPT !.shoff = 0],
      [GoodHdr EXCEPT !.phoff = 0],
      [GoodHdr EXCEPT !.shstrndx = 0] }

\* Program-header entries drawn (Elf32_Phdr_t).
CodeSeg ==
    [ p_type |-> "PT_LOAD", p_vaddr |-> 1, p_offset |-> 1, p_filesz |-> 2,
      p_memsz |-> 3, p_flags |-> 5 ]
DataSeg ==
    [ p_type |-> "PT_LOAD", p_vaddr |-> 2, p_offset |-> 0, p_filesz |-> 1,
      p_memsz |-> Align + 1, p_flags |-> 6 ]
NoteSeg ==
    [ p_type |-> "PT_NOTE", p_vaddr |-> 3, p_offset |-> 0, p_filesz |-> 1,
      p_memsz |-> 1, p_flags |-> 4 ]
NullSeg ==
    [ p_type |-> "PT_LOAD", p_vaddr |-> 0, p_offset |-> 0, p_filesz |-> 1,
      p_memsz |-> 2, p_flags |-> 6 ]
HugeSeg ==
    [ p_type |-> "PT_LOAD", p_vaddr |-> 4, p_offset |-> 2, p_filesz |-> 1,
      p_memsz |-> WordMod - 1, p_flags |-> 6 ]
Segs == { CodeSeg, DataSeg, NoteSeg, NullSeg, HugeSeg }
PhLists == UNION { [1..n -> Segs] : n \in 0..MaxPh }

\* What the module-info search finds: name_idx (memstr (...) - strings as an
\* int) and the sh_name field of each section header.
ModInfoInputs ==
    { [name_idx |-> 1, sh_names |-> <<0, 1>>],
      [name_idx |-> 0, sh_names |-> <<0, 1>>],
      [name_idx |-> -1, sh_names |-> <<0, 1>>],
      [name_idx |-> 1, sh_names |-> <<0, 2>>] }

\* The bytes at SCEHDR_LEN are read only on the wrapped path: other images
\* are drawn with one value for them.
Images ==
    { im \in [ magic : Magics, inner : InnerMagics, hdr : Headers,
               ph : PhLists, modinfo : ModInfoInputs ] :
        im.magic # SceMagic => im.inner = ElfMagic }

\* Byte of the file at an offset (never zero, so that a copied byte and a
\* zero-filled byte differ).
ImageByte(off) == (off % 3) + 1


\* ------------------------------------------------------- pure functions
\* uvl_elf_check_header with the class check left out: a fault that lets a
\* 64-bit header through.
uvl_elf_check_header_NoClass(ident, h) ==
    IF ~(ident[1] = ELFMAG0 /\ ident[2] = ELFMAG1 /\ ident[3] = ELFMAG2
         /\ ident[4] = ELFMAG3) THEN -1
    ELSE IF ~(h.data = "ELFDATA2LSB") THEN -1
    ELSE IF ~(h.identver = "EV_CURRENT") THEN -1
    ELSE IF ~(h.type = "ET_EXEC" \/ h.type = "ET_SCE_EXEC") THEN -1
    ELSE IF ~(h.machine = "EM_ARM") THEN -1
    ELSE IF ~(h.version = "EV_CURRENT") THEN -1
    ELSE IF ~(h.shoff > 0 /\ h.phoff > 0) THEN -1
    ELSE IF ~(h.shstrndx > 0) THEN -1
    ELSE 0

\* uvl_elf_check_header: 0 when the header passes the nine checks, else -1.
\* ident is e_ident[EI_MAG0..EI_MAG3], h the fields after it.
uvl_elf_check_header(ident, h) ==
    IF ~(ident[1] = ELFMAG0 /\ ident[2] = ELFMAG1 /\ ident[3] = ELFMAG2
         /\ ident[4] = ELFMAG3) THEN -1
    ELSE IF ~(h.class = "ELFCLASS32") THEN -1
    ELSE IF ~(h.data = "ELFDATA2LSB") THEN -1
    ELSE IF ~(h.identver = "EV_CURRENT") THEN -1
    ELSE IF ~(h.type = "ET_EXEC" \/ h.type = "ET_SCE_EXEC") THEN -1
    ELSE IF ~(h.machine = "EM_ARM") THEN -1
    ELSE IF ~(h.version = "EV_CURRENT") THEN -1
    ELSE IF ~(h.shoff > 0 /\ h.phoff > 0) THEN -1
    ELSE IF ~(h.shstrndx > 0) THEN -1
    ELSE 0

\* uvl_elf_get_module_info: -1 when the section name is not found at an
\* index above 0 or no section header carries that name index, else 0.
uvl_elf_get_module_info(mi) ==
    IF mi.name_idx <= 0 THEN -1
    ELSE IF \E i \in 1..Len(mi.sh_names) : mi.sh_names[i] = mi.name_idx THEN 0
    ELSE -1

\* uvl_load_exe's branch on the magic bytes: "elf" and "self" call
\* uvl_load_elf (at data, at data + SCEHDR_LEN), "invalid" returns -1 and
\* "none" is the path on which no branch body runs and control reaches
\* uvl_free_data.
Dispatch(magic) ==
    IF magic[1] = ELFMAG0
    THEN IF magic[2] = ELFMAG1 /\ magic[3] = ELFMAG2 /\ magic[4] = ELFMAG3
         THEN "elf" ELSE "none"
    ELSE IF magic[1] = SCEMAG0
    THEN IF magic[2] = SCEMAG1 /\ magic[3] = SCEMAG2 /\ magic[4] = SCEMAG3
         THEN "self" ELSE "none"
    ELSE "invalid"

\* The same with a close failure only reported: a fault.
LoadFileCloseResult_Ignore(closeRet) == 0

\* uvl_load_file after sceIoClose: the value it returns for close's result.
LoadFileCloseResult(closeRet) == IF closeRet < 0 THEN -1 ELSE 0

\* length = (p_memsz + 0xFFFFF) & ~0xFFFFF in u32_t arithmetic.
AlignLength(memsz) ==
    LET s == (memsz + (Align - 1)) % WordMod IN s - (s % Align)

\* The test p_flags & PF_X == PF_X, which C parses as p_flags & (PF_X == PF_X),
\* that is p_flags & 1.
IsExecutable(flags) == flags % 2 = 1

\* The segment loader's skip test.
Skipped(p) == p.p_type # "PT_LOAD" \/ p.p_vaddr = 0

\* psvUnlockMem and psvLockMem: the write protection state they leave.
psvUnlockMem(l) == FALSE

\* The lock call left out after the copy: a fault.
psvLockMem_Noop(l) == l

psvLockMem(l) == TRUE

\* ------------------------------------------------------------------ state
VARIABLES
    image,        \* the file on disk
    pc,           \* position in uvl_load_exe and its callees
    ret,          \* uvl_load_exe's return value (read when pc = "done")
    entry,        \* *entry (0 is NULL)
    fdOpen,       \* the file handle is open
    tempBlock,    \* the "UVLTemp" block is allocated
    dataSet,      \* uvl_load_file has stored *data
    size,         \* *size as uvl_load_file left it
    closeFailed,  \* sceIoClose returned < 0
    lfRet,        \* uvl_load_file's return value
    freeCalled,   \* uvl_free_data has been called
    wrapped,      \* uvl_load_elf was handed data + SCEHDR_LEN
    elfInvoked,   \* uvl_load_elf has been called
    elfReturned,  \* uvl_load_elf has returned
    elfRet,       \* uvl_load_elf's return value
    hdrChecked,   \* uvl_elf_check_header has returned
    tableReads,   \* reads of the section and program header tables so far
    mods,         \* mod_list as sceKernelGetModuleList filled it
    modIdx,       \* the reclaimer's i
    unloads,      \* sceKernelStopUnloadModule calls that succeeded
    reclaimDone,  \* uvl_elf_free_memory has returned 0
    segIdx,       \* the segment loop's i (1-based)
    regions,      \* the "UVLHomebrew" blocks granted, in order
    blockaddr,    \* the block blockaddr points into (0: into no granted block)
    stray,        \* a byte was written outside the block granted for it
    allocCalls,   \* sceKernelAllocMemBlock + sceKernelAllocCodeMemBlock calls
    segAllocs,    \* of which "UVLHomebrew" calls
    segsDone,     \* segments whose copy/zero step has finished
    locked,       \* memory write protection is on
    unlockCalls,  \* psvUnlockMem calls
    lockCalls,    \* psvLockMem calls
    base,         \* prog_hdrs[0].p_vaddr as added to stub_top and ent_top
    nImports,     \* descriptors in [import, end)
    impIdx,       \* the import loop's i
    depCalls,     \* uvl_load_module_for_lib calls
    depFails,     \* of which returned < 0
    resolveCalls, \* uvl_resolve_imports calls
    resolveFailed,\* uvl_resolve_imports returned < 0
    exports,      \* the export descriptors in [export, end)
    expIdx,       \* the export loop's i (1-based)
    exportScans,  \* export descriptors examined
    rl            \* the relocator's state (see InitReloc)

acqVars == <<fdOpen, tempBlock, dataSet, size, closeFailed, lfRet, freeCalled>>
elfCtl == <<wrapped, elfInvoked, elfReturned, elfRet, hdrChecked, tableReads>>
fmVars == <<mods, modIdx, unloads, reclaimDone>>
segVars == <<segIdx, regions, blockaddr, stray, allocCalls, segAllocs, segsDone>>
lockVars == <<locked, unlockCalls, lockCalls>>
impVars == <<base, nImports, impIdx, depCalls, resolveCalls, depFails, resolveFailed>>
expVars == <<exports, expIdx, exportScans>>
vars == <<image, pc, ret, entry, acqVars, elfCtl, fmVars, segVars, lockVars,
          impVars, expVars, rl>>

\* The relocator's state while the loader runs.
RelocIdle == [ phase |-> "idle" ]

LoaderInit ==
    /\ pc = "start" /\ ret = 0 /\ entry = 0
    /\ fdOpen = FALSE /\ tempBlock = FALSE /\ dataSet = FALSE
    /\ size = "unset" /\ closeFailed = FALSE /\ lfRet = 0
    /\ freeCalled = FALSE
    /\ wrapped = FALSE /\ elfInvoked = FALSE /\ elfReturned = FALSE
    /\ elfRet = 0 /\ hdrChecked = FALSE /\ tableReads = 0
    /\ mods = <<>> /\ modIdx = 1 /\ unloads = 0 /\ reclaimDone = FALSE
    /\ segIdx = 1 /\ regions = <<>> /\ blockaddr = 0 /\ stray = FALSE
    /\ allocCalls = 0 /\ segAllocs = 0 /\ segsDone = 0
    /\ locked = TRUE /\ unlockCalls = 0 /\ lockCalls = 0
    /\ base = 0 /\ nImports = 0 /\ impIdx = 0 /\ depCalls = 0
    /\ resolveCalls = 0 /\ depFails = 0 /\ resolveFailed = FALSE
    /\ exports = <<>> /\ expIdx = 1 /\ exportScans = 0

Init ==
    /\ image \in Images
    /\ LoaderInit
    /\ rl = RelocIdle

\* uvl_load_exe returns v.
Return(v) == pc' = "done" /\ ret' = v

\* ------------------------------------------------------- uvl_load_file
\* sceIoOpen.
LoadFileOpen ==
    /\ pc = "start"
    /\ \E r \in {0, -1} :
         IF r < 0
         THEN /\ lfRet' = -1 /\ Return(-1)
              /\ UNCHANGED <<fdOpen>>
         ELSE /\ fdOpen' = TRUE /\ pc' = "lf_alloc"
              /\ UNCHANGED <<lfRet, ret>>
    /\ UNCHANGED <<image, entry, tempBlock, dataSet, size, closeFailed,
                   freeCalled, elfCtl, fmVars, segVars, lockVars, impVars,
                   expVars, rl>>

\* sceKernelAllocMemBlock ("UVLTemp", ...).
LoadFileAlloc ==
    /\ pc = "lf_alloc"
    /\ allocCalls' = allocCalls + 1
    /\ \E r \in {0, -1} :
         IF r < 0
         THEN /\ lfRet' = -1 /\ Return(-1)
              /\ UNCHANGED <<tempBlock>>
         ELSE /\ tempBlock' = TRUE /\ pc' = "lf_base"
              /\ UNCHANGED <<lfRet, ret>>
    /\ UNCHANGED <<image, entry, fdOpen, dataSet, size, closeFailed,
                   freeCalled, elfCtl, fmVars, segIdx, regions, blockaddr,
                   stray, segAllocs, segsDone, lockVars, impVars, expVars, rl>>

\* sceKernelGetMemBlockBase.
LoadFileBase ==
    /\ pc = "lf_base"
    /\ \E r \in {0, -1} :
         IF r < 0
         THEN /\ lfRet' = -1 /\ Return(-1)
         ELSE /\ pc' = "lf_read"
              /\ UNCHANGED <<lfRet, ret>>
    /\ UNCHANGED <<image, entry, fdOpen, tempBlock, dataSet, size, closeFailed,
                   freeCalled, elfCtl, fmVars, segVars, lockVars, impVars,
                   expVars, rl>>

\* *size = sceIoRead (...): an error, fewer than UVL_BIN_MAX_SIZE bytes, or
\* UVL_BIN_MAX_SIZE bytes (a warning only).
LoadFileRead ==
    /\ pc = "lf_read"
    /\ \E r \in {"error", "short", "full"} :
         /\ size' = r
         /\ IF r = "error"
            THEN /\ lfRet' = -1 /\ Return(-1)
            ELSE /\ pc' = "lf_close"
                 /\ UNCHANGED <<lfRet, ret>>
    /\ UNCHANGED <<image, entry, fdOpen, tempBlock, dataSet, closeFailed,
                   freeCalled, elfCtl, fmVars, segVars, lockVars, impVars,
                   expVars, rl>>

\* sceIoClose, then *data = base and return 0.
LoadFileClose ==
    /\ pc = "lf_close"
    /\ \E r \in {0, -1} :
         /\ closeFailed' = (r < 0)
         /\ fdOpen' = (r < 0)
         /\ lfRet' = LoadFileCloseResult(r)
         /\ IF lfRet' < 0
            THEN /\ Return(-1)
                 /\ UNCHANGED <<dataSet>>
            ELSE /\ dataSet' = TRUE /\ pc' = "dispatch"
                 /\ UNCHANGED <<ret>>
    /\ UNCHANGED <<image, entry, tempBlock, size, freeCalled, elfCtl, fmVars,
                   segVars, lockVars, impVars, expVars, rl>>

\* -------------------------------------------------------- uvl_load_exe
\* The branch on magic[0..3].
DispatchMagic ==
    /\ pc = "dispatch"
    /\ LET d == Dispatch(image.magic) IN
         CASE d = "elf" ->
                /\ elfInvoked' = TRUE /\ wrapped' = FALSE /\ pc' = "elf_check"
                /\ UNCHANGED <<ret>>
           [] d = "self" ->
                /\ elfInvoked' = TRUE /\ wrapped' = TRUE /\ pc' = "elf_check"
                /\ UNCHANGED <<ret>>
           [] d = "none" ->
                /\ pc' = "free"
                /\ UNCHANGED <<ret, elfInvoked, wrapped>>
           [] OTHER ->
                /\ Return(-1)
                /\ UNCHANGED <<elfInvoked, wrapped>>
    /\ UNCHANGED <<image, entry, acqVars, elfReturned, elfRet, hdrChecked,
                   tableReads, fmVars, segVars, lockVars, impVars, expVars, rl>>

\* uvl_load_elf has returned: a failure is returned at once, otherwise the
\* buffer is released next.
ElfReturned ==
    /\ pc = "elf_ret"
    /\ elfReturned' = TRUE
    /\ IF elfRet < 0
       THEN Return(-1)
       ELSE pc' = "free" /\ UNCHANGED ret
    /\ UNCHANGED <<image, entry, acqVars, wrapped, elfInvoked, elfRet,
                   hdrChecked, tableReads, fmVars, segVars, lockVars, impVars,
                   expVars, rl>>

\* uvl_free_data: sceKernelFindMemBlockByAddr (a failure is only logged),
\* then sceKernelFreeMemBlock, whose failure is returned.
FreeData ==
    /\ pc = "free"
    /\ \E found \in BOOLEAN, freed \in {0, -1} :
         /\ tempBlock' = IF found /\ freed = 0 THEN FALSE ELSE tempBlock
         /\ freeCalled' = TRUE
         /\ Return(IF freed < 0 THEN -1 ELSE 0)
    /\ UNCHANGED <<image, entry, fdOpen, dataSet, size, closeFailed, lfRet,
                   elfCtl, fmVars, segVars, lockVars, impVars, expVars, rl>>

\* -------------------------------------------------------- uvl_load_elf
\* uvl_load_elf returns -1.
ElfFail == pc' = "elf_ret" /\ elfRet' = -1

\* e_ident[EI_MAG0..EI_MAG3] of the header uvl_load_elf was handed.
Ident == IF wrapped THEN image.inner ELSE image.magic

\* The same with the call of uvl_elf_free_memory left out: a fault.
AfterModuleInfo_NoReclaim == "elf_phnum"

\* Where uvl_load_elf goes once the module info is found: to the reclaimer.
AfterModuleInfo == "fm_query"

\* uvl_elf_check_header (elf_hdr).
ElfCheckHeader ==
    /\ pc = "elf_check"
    /\ hdrChecked' = TRUE
    /\ IF uvl_elf_check_header(Ident, image.hdr) < 0
       THEN ElfFail
       ELSE pc' = "elf_modinfo" /\ UNCHANGED elfRet
    /\ UNCHANGED <<image, ret, entry, acqVars, wrapped, elfInvoked, elfReturned,
                   tableReads, fmVars, segVars, lockVars, impVars, expVars, rl>>

\* uvl_elf_get_module_info: reads the section header table.
ElfModuleInfo ==
    /\ pc = "elf_modinfo"
    /\ tableReads' = tableReads + 1
    /\ IF uvl_elf_get_module_info(image.modinfo) < 0
       THEN ElfFail
       ELSE pc' = AfterModuleInfo /\ UNCHANGED elfRet
    /\ UNCHANGED <<image, ret, entry, acqVars, wrapped, elfInvoked, elfReturned,
                   hdrChecked, fmVars, segVars, lockVars, impVars, expVars, rl>>

\* A loaded module as the reclaimer sees it: whether sceKernelGetModuleInfo
\* succeeds for it, and which of its three segments sit at 0x81000000.
ModKinds ==
    { [infoOk |-> TRUE, atWindow |-> <<FALSE, FALSE, FALSE>>],
      [infoOk |-> TRUE, atWindow |-> <<FALSE, TRUE, FALSE>>],
      [infoOk |-> TRUE, atWindow |-> <<TRUE, FALSE, TRUE>>],
      [infoOk |-> FALSE, atWindow |-> <<TRUE, FALSE, FALSE>>] }
ModLists == UNION { [1..n -> ModKinds] : n \in 0..MaxMods }

\* uvl_elf_free_memory up to sceKernelGetModuleList: the scan of the program
\* headers for min_addr and max_addr (neither is used afterwards), then the
\* query.
FreeMemQuery ==
    /\ pc = "fm_query"
    /\ tableReads' = tableReads + 1
    /\ \/ /\ ElfFail
          /\ UNCHANGED <<mods, modIdx>>
       \/ /\ \E l \in ModLists : mods' = l
          /\ modIdx' = 1
          /\ pc' = "fm_mod"
          /\ UNCHANGED elfRet
    /\ UNCHANGED <<image, ret, entry, acqVars, wrapped, elfInvoked, elfReturned,
                   hdrChecked, unloads, reclaimDone, segVars, lockVars, impVars,
                   expVars, rl>>

\* One round of the loop over mod_list, or the return 0 after it (mod_list
\* is a local: it is gone once uvl_elf_free_memory has returned).
FreeMemModule ==
    /\ pc = "fm_mod"
    /\ IF modIdx > Len(mods)
       THEN /\ reclaimDone' = TRUE
            /\ mods' = <<>> /\ modIdx' = 1
            /\ pc' = "elf_phnum"
            /\ UNCHANGED <<unloads, elfRet>>
       ELSE IF ~mods[modIdx].infoOk
       THEN /\ modIdx' = modIdx + 1
            /\ UNCHANGED <<pc, mods, unloads, reclaimDone, elfRet>>
       ELSE IF \E j \in 1..3 : mods[modIdx].atWindow[j]
       THEN \E r \in {0, -1} :
              IF r < 0
              THEN /\ ElfFail
                   /\ mods' = <<>> /\ modIdx' = 1
                   /\ UNCHANGED <<unloads, reclaimDone>>
              ELSE /\ unloads' = unloads + 1
                   /\ modIdx' = modIdx + 1
                   /\ UNCHANGED <<pc, mods, reclaimDone, elfRet>>
       ELSE /\ modIdx' = modIdx + 1
            /\ UNCHANGED <<pc, mods, unloads, reclaimDone, elfRet>>
    /\ UNCHANGED <<image, ret, entry, acqVars, wrapped, elfInvoked, elfReturned,
                   hdrChecked, tableReads, segVars, lockVars, impVars, expVars,
                   rl>>

\* The test e_phnum < 1.
ElfPhnum ==
    /\ pc = "elf_phnum"
    /\ IF Len(image.ph) < 1
       THEN ElfFail /\ UNCHANGED segIdx
       ELSE pc' = "seg_loop" /\ segIdx' = 1 /\ UNCHANGED elfRet
    /\ UNCHANGED <<image, ret, entry, acqVars, wrapped, elfInvoked, elfReturned,
                   hdrChecked, tableReads, fmVars, regions, blockaddr, stray,
                   allocCalls, segAllocs, segsDone, lockVars, impVars, expVars,
                   rl>>

\* A block as the allocator grants it: its kind, its length and its bytes
\* (255 stands for whatever the block held).
NewBlock(kind, length) ==
    [ kind |-> kind, len |-> length, bytes |-> [b \in 0..(length - 1) |-> 255] ]

\* The head of the segment loop: the loop test, the skip test, and the
\* allocation of the block for a loadable segment.
SegLoop ==
    /\ pc = "seg_loop"
    /\ IF segIdx > Len(image.ph)
       THEN /\ pc' = "imp_init"
            /\ UNCHANGED <<segIdx, regions, allocCalls, segAllocs, elfRet>>
       ELSE IF Skipped(image.ph[segIdx])
       THEN /\ segIdx' = segIdx + 1
            /\ UNCHANGED <<pc, regions, allocCalls, segAllocs, elfRet>>
       ELSE /\ allocCalls' = allocCalls + 1
            /\ segAllocs' = segAllocs + 1
            /\ \E r \in {0, -1} :
                 IF r < 0
                 THEN /\ ElfFail
                      /\ UNCHANGED <<segIdx, regions>>
                 ELSE /\ regions' = Append(regions,
                            NewBlock(IF IsExecutable(image.ph[segIdx].p_flags)
                                     THEN "code" ELSE "data",
                                     AlignLength(image.ph[segIdx].p_memsz)))
                      /\ pc' = "seg_base"
                      /\ UNCHANGED <<segIdx, elfRet>>
    /\ UNCHANGED <<image, ret, entry, acqVars, wrapped, elfInvoked, elfReturned,
                   hdrChecked, tableReads, fmVars, blockaddr, stray, segsDone,
                   lockVars, impVars, expVars, rl>>

\* sceKernelGetMemBlockBase (memblock, &blockaddr): a failure is only
\* logged, and blockaddr then holds what it held (nothing yet on the first
\* segment): any address, inside a granted block or not.  The comparison
\* with p_vaddr only logs.
SegGetBase ==
    /\ pc = "seg_base"
    /\ \E r \in {0, -1} :
         IF r < 0
         THEN \E a \in 0..Len(regions) : blockaddr' = a
         ELSE blockaddr' = Len(regions)
    /\ pc' = "seg_unlock"
    /\ UNCHANGED <<image, ret, entry, acqVars, elfCtl, fmVars, segIdx, regions,
                   stray, allocCalls, segAllocs, segsDone, lockVars, impVars,
                   expVars, rl>>

\* psvUnlockMem ().
SegUnlock ==
    /\ pc = "seg_unlock"
    /\ locked' = psvUnlockMem(locked)
    /\ unlockCalls' = unlockCalls + 1
    /\ pc' = "seg_copy"
    /\ UNCHANGED <<image, ret, entry, acqVars, elfCtl, fmVars, segVars,
                   lockCalls, impVars, expVars, rl>>

\* The blocks after the n bytes at offsets from .. from+n-1 behind blockaddr
\* are stored: bytes of the file from p_offset on when fill is FALSE, zeros
\* when fill is TRUE.  The bytes that fall inside the block are stored in it.
Stored(from, n, fill, p_offset) ==
    IF blockaddr = 0 THEN regions
    ELSE [regions EXCEPT ![blockaddr].bytes =
            [b \in DOMAIN @ |->
               IF b >= from /\ b < from + n
               THEN (IF fill THEN 0 ELSE ImageByte(p_offset + b))
               ELSE @[b]]]

\* Whether one of those bytes falls outside the block.
Strays(from, n) ==
    n > 0 /\ (blockaddr = 0 \/ from + n > regions[blockaddr].len)

\* memcpy (blockaddr, data + p_offset, p_filesz).
SegCopy ==
    /\ pc = "seg_copy"
    /\ LET p == image.ph[segIdx]
       IN /\ regions' = Stored(0, p.p_filesz, FALSE, p.p_offset)
          /\ stray' = (stray \/ Strays(0, p.p_filesz))
    /\ pc' = "seg_zero"
    /\ UNCHANGED <<image, ret, entry, acqVars, elfCtl, fmVars, segIdx,
                   blockaddr, allocCalls, segAllocs, segsDone, lockVars,
                   impVars, expVars, rl>>

\* memset (blockaddr + p_filesz, 0, p_memsz - p_filesz), the length in
\* u32_t arithmetic.
SegZero ==
    /\ pc = "seg_zero"
    /\ LET p == image.ph[segIdx]
           n == (p.p_memsz - p.p_filesz) % WordMod
       IN /\ regions' = Stored(p.p_filesz, n, TRUE, 0)
          /\ stray' = (stray \/ Strays(p.p_filesz, n))
    /\ pc' = "seg_lock"
    /\ UNCHANGED <<image, ret, entry, acqVars, elfCtl, fmVars, segIdx,
                   blockaddr, allocCalls, segAllocs, segsDone, lockVars,
                   impVars, expVars, rl>>

\* psvLockMem (), the end of the loop body.
SegLock ==
    /\ pc = "seg_lock"
    /\ locked' = psvLockMem(locked)
    /\ lockCalls' = lockCalls + 1
    /\ segsDone' = segsDone + 1
    /\ segIdx' = segIdx + 1
    /\ pc' = "seg_loop"
    /\ UNCHANGED <<image, ret, entry, acqVars, elfCtl, fmVars, regions,
                   blockaddr, stray, allocCalls, segAllocs, unlockCalls,
                   impVars, expVars, rl>>


\* The same with a return -1 in place of the continue: a fault.
AfterLoadModule_Fatal(depRet) == IF depRet < 0 THEN "return" ELSE "resolve"

\* The import loop after uvl_load_module_for_lib returned depRet: the
\* continue on a failure, uvl_resolve_imports otherwise.
AfterLoadModule(depRet) == IF depRet < 0 THEN "continue" ELSE "resolve"

\* The import loop after uvl_resolve_imports returned resolveRet: the
\* return -1 on a failure, the next round otherwise.
AfterResolve(resolveRet) == IF resolveRet < 0 THEN "return" ELSE "continue"

\* What uvl_load_module_for_lib may return.  The body in load.c is a stub
\* that returns 0; the value below zero is the dependency loader's failure
\* that the loop tests for.
LoadModuleResults == {0, -1}

\* import = prog_hdrs[0].p_vaddr + stub_top, end = ... + stub_end: the base
\* is entry 0's address; the number of descriptors between the two is read
\* from the module info.
ImpInit ==
    /\ pc = "imp_init"
    /\ base' = image.ph[1].p_vaddr
    /\ \E n \in 0..MaxImports : nImports' = n
    /\ impIdx' = 0
    /\ pc' = "imp_loop"
    /\ UNCHANGED <<image, ret, entry, acqVars, elfCtl, fmVars, segVars,
                   lockVars, depCalls, resolveCalls, depFails, resolveFailed,
                   expVars, rl>>

\* The import loop's test and, inside the loop, uvl_load_module_for_lib.
ImpLoop ==
    /\ pc = "imp_loop"
    /\ IF impIdx >= nImports
       THEN /\ pc' = "exp_init"
            /\ UNCHANGED <<impIdx, depCalls, depFails, elfRet>>
       ELSE /\ depCalls' = depCalls + 1
            /\ \E d \in LoadModuleResults :
                 /\ depFails' = IF d < 0 THEN depFails + 1 ELSE depFails
                 /\ CASE AfterLoadModule(d) = "continue" ->
                           /\ impIdx' = impIdx + 1
                           /\ UNCHANGED <<pc, elfRet>>
                      [] AfterLoadModule(d) = "resolve" ->
                           /\ pc' = "imp_resolve"
                           /\ UNCHANGED <<impIdx, elfRet>>
                      [] OTHER ->
                           /\ ElfFail
                           /\ UNCHANGED impIdx
    /\ UNCHANGED <<image, ret, entry, acqVars, wrapped, elfInvoked, elfReturned,
                   hdrChecked, tableReads, fmVars, segVars, lockVars, base,
                   nImports, resolveCalls, resolveFailed, expVars, rl>>

\* uvl_resolve_imports (&import[i]).
ImpResolve ==
    /\ pc = "imp_resolve"
    /\ resolveCalls' = resolveCalls + 1
    /\ \E r \in {0, -1} :
         /\ resolveFailed' = (r < 0)
         /\ IF AfterResolve(r) = "return"
            THEN ElfFail /\ UNCHANGED impIdx
            ELSE /\ impIdx' = impIdx + 1
                 /\ pc' = "imp_loop"
                 /\ UNCHANGED elfRet
    /\ UNCHANGED <<image, ret, entry, acqVars, wrapped, elfInvoked, elfReturned,
                   hdrChecked, tableReads, fmVars, segVars, lockVars, base,
                   nImports, depCalls, depFails, expVars, rl>>

\* Export descriptor runs read at prog_hdrs[0].p_vaddr + ent_top.
ExportRuns ==
    { <<>>,
      << [attribute |-> "other", nid_table |-> <<"ENTRY_NID">>] >>,
      << [attribute |-> "ATTR_MOD_INFO", nid_table |-> <<"a", "b">>] >>,
      << [attribute |-> "other", nid_table |-> <<"a">>],
         [attribute |-> "ATTR_MOD_INFO", nid_table |-> <<"a", "b", "ENTRY_NID">>] >> }

\* export = prog_hdrs[0].p_vaddr + ent_top, end = ... + ent_end.
ExpInit ==
    /\ pc = "exp_init"
    /\ \E run \in ExportRuns : exports' = run
    /\ expIdx' = 1
    /\ pc' = "exp_loop"
    /\ UNCHANGED <<image, ret, entry, acqVars, elfCtl, fmVars, segVars,
                   lockVars, impVars, exportScans, rl>>

\* entry_table[j] of export descriptor i (an address, never NULL).
EntryAddress(i, j) == 10 * i + j

\* One round of the export loop: the loop test, the attribute test and the
\* scan of the descriptor's NID table for ENTRY_NID.
ExpLoop ==
    /\ pc = "exp_loop"
    /\ IF expIdx > Len(exports)
       THEN /\ ElfFail
            /\ UNCHANGED <<entry, expIdx, exportScans>>
       ELSE /\ exportScans' = exportScans + 1
            /\ LET e == exports[expIdx]
                   hits == { j \in 1..Len(e.nid_table) : e.nid_table[j] = "ENTRY_NID" }
               IN IF e.attribute = "ATTR_MOD_INFO" /\ hits # {}
                  THEN /\ entry' = EntryAddress(expIdx,
                                      CHOOSE j \in hits : \A k \in hits : j <= k)
                       /\ pc' = "elf_ret" /\ elfRet' = 0
                       /\ UNCHANGED expIdx
                  ELSE /\ expIdx' = expIdx + 1
                       /\ UNCHANGED <<pc, entry, elfRet>>
    /\ UNCHANGED <<image, ret, acqVars, wrapped, elfInvoked, elfReturned,
                   hdrChecked, tableReads, fmVars, segVars, lockVars, impVars,
                   exports, rl>>

\* ---------------------------------------------------- uvl_offset_import
\* The relocator works on one module_imports_t and on the memory its entry
\* tables lie in.  Memory is RMod words (a pointer is RelocBits wide and a
\* table element one word); the descriptor itself lies outside the tables.
\* rl holds: phase (the position in the two calls), call (1: addend k,
\* 2: addend -k), i (the loop index), k, imp and mem (the descriptor and the
\* memory), imp0 and mem0 (both as they were before the first call).
Addr == 0..(RMod - 1)

\* (u32_t)p + addend.
PtrAdd(p, addend) == (p + addend) % RMod

\* The seven assignments to the descriptor's pointers.
OffsetPointers(imp, addend) ==
    [imp EXCEPT !.lib_name = PtrAdd(@, addend),
                !.func_nid_table = PtrAdd(@, addend),
                !.func_entry_table = PtrAdd(@, addend),
                !.var_nid_table = PtrAdd(@, addend),
                !.var_entry_table = PtrAdd(@, addend),
                !.tls_nid_table = PtrAdd(@, addend),
                !.tls_entry_table = PtrAdd(@, addend)]

\* table[i] = (void*)((u32_t)table[i] + addend).
OffsetEntry(mem, table, i, addend) ==
    [mem EXCEPT ![PtrAdd(table, i)] = PtrAdd(@, addend)]

\* The same with <= for <: a fault.
InLoop_OffByOne(i, count) == i <= count

\* The test of the three for loops.
InLoop(i, count) == i < count

\* The memory before the first call.
Mem0 == [a \in Addr |-> (3 * a + 1) % RMod]

\* The descriptors drawn.
Descriptors ==
    [ lib_name : {0, RMod - 1},
      func_nid_table : {1},
      func_entry_table : Addr,
      var_nid_table : {2},
      var_entry_table : {1, RMod - 2},
      tls_nid_table : {3},
      tls_entry_table : {2},
      num_functions : 0..MaxCount,
      num_vars : 0..MaxCount,
      num_tls_vars : 0..MaxCount ]

\* The addends drawn: k and -k are both ints.
Addends == (1 - RMod \div 2)..(RMod \div 2 - 1)

\* The addend of the call under way.
Addend == IF rl.call = 1 THEN rl.k ELSE 0 - rl.k

\* The assignments to the seven pointers.
RelocPointers ==
    /\ rl.phase = "pointers"
    /\ rl' = [rl EXCEPT !.imp = OffsetPointers(@, Addend),
                        !.phase = "func", !.i = 0]
    /\ UNCHANGED <<image, pc, ret, entry, acqVars, elfCtl, fmVars, segVars,
                   lockVars, impVars, expVars>>

\* for (i = 0; i < import->num_functions; i++).
RelocFunc ==
    /\ rl.phase = "func"
    /\ IF InLoop(rl.i, rl.imp.num_functions)
       THEN rl' = [rl EXCEPT
                     !.mem = OffsetEntry(@, rl.imp.func_entry_table, rl.i, Addend),
                     !.i = @ + 1]
       ELSE rl' = [rl EXCEPT !.phase = "var", !.i = 0]
    /\ UNCHANGED <<image, pc, ret, entry, acqVars, elfCtl, fmVars, segVars,
                   lockVars, impVars, expVars>>

\* for (i = 0; i < import->num_vars; i++).
RelocVar ==
    /\ rl.phase = "var"
    /\ IF InLoop(rl.i, rl.imp.num_vars)
       THEN rl' = [rl EXCEPT
                     !.mem = OffsetEntry(@, rl.imp.var_entry_table, rl.i, Addend),
                     !.i = @ + 1]
       ELSE rl' = [rl EXCEPT !.phase = "tls", !.i = 0]
    /\ UNCHANGED <<image, pc, ret, entry, acqVars, elfCtl, fmVars, segVars,
                   lockVars, impVars, expVars>>

\* for (i = 0; i < import->num_tls_vars; i++), then the return: the second
\* call follows the first.
RelocTls ==
    /\ rl.phase = "tls"
    /\ IF InLoop(rl.i, rl.imp.num_tls_vars)
       THEN rl' = [rl EXCEPT
                     !.mem = OffsetEntry(@, rl.imp.tls_entry_table, rl.i, Addend),
                     !.i = @ + 1]
       ELSE IF rl.call = 1
       THEN rl' = [rl EXCEPT !.phase = "pointers", !.call = 2, !.i = 0]
       ELSE rl' = [rl EXCEPT !.phase = "done", !.i = 0]
    /\ UNCHANGED <<image, pc, ret, entry, acqVars, elfCtl, fmVars, segVars,
                   lockVars, impVars, expVars>>

\* The image held while the relocator is checked.
PlainImage ==
    [ magic |-> ElfMagic, inner |-> ElfMagic, hdr |-> GoodHdr, ph |-> <<CodeSeg>>,
      modinfo |-> [name_idx |-> 1, sh_names |-> <<0, 1>>] ]

InitReloc ==
    /\ image = PlainImage
    /\ LoaderInit
    /\ \E d \in Descriptors, k \in Addends :
         rl = [ phase |-> "pointers", call |-> 1, i |-> 0, k |-> k,
                imp |-> d, imp0 |-> d, mem |-> Mem0, mem0 |-> Mem0 ]

NextReloc == RelocPointers \/ RelocFunc \/ RelocVar \/ RelocTls

SpecReloc == InitReloc /\ [][NextReloc]_vars

\* ------------------------------------------------------- specification
Next ==
    \/ LoadFileOpen \/ LoadFileAlloc \/ LoadFileBase \/ LoadFileRead
    \/ LoadFileClose \/ DispatchMagic \/ ElfReturned \/ FreeData
    \/ ElfCheckHeader \/ ElfModuleInfo \/ FreeMemQuery \/ FreeMemModule
    \/ ElfPhnum \/ SegLoop \/ SegGetBase \/ SegUnlock \/ SegCopy \/ SegZero
    \/ SegLock \/ ImpInit \/ ImpLoop \/ ImpResolve \/ ExpInit \/ ExpLoop

Spec == Init /\ [][Next]_vars

\* ---------------------------------------------------------------- claims
\* The nine conditions of the header validator, as a conjunction.
HeaderValid(ident, h) ==
    /\ ident = ElfMagic
    /\ h.class = "ELFCLASS32"
    /\ h.data = "ELFDATA2LSB"
    /\ h.identver = "EV_CURRENT"
    /\ h.type \in {"ET_EXEC", "ET_SCE_EXEC"}
    /\ h.machine = "EM_ARM"
    /\ h.version = "EV_CURRENT"
    /\ h.shoff > 0 /\ h.phoff > 0
    /\ h.shstrndx > 0

\* e_ident[0..3] of the image's ELF header: behind the wrapper header of an
\* image with the wrapped-format magic, at offset 0 otherwise.
ImageIdent == IF image.magic = SceMagic THEN image.inner ELSE image.magic

\* The indices of the program-header entries the segment loader does not skip.
Loadable == { i \in 1..Len(image.ph) : ~Skipped(image.ph[i]) }

\* C1: an acquired image whose four magic bytes are neither the ELF magic
\* nor the wrapped-format magic makes uvl_load_exe return an error.
C1_UnrecognizedFormatFails ==
    (pc = "done" /\ dataSet /\ image.magic \notin {ElfMagic, SceMagic})
        => ret = -1

\* C2: once uvl_load_elf has returned, on success or on failure, uvl_load_exe
\* does not return before it has called uvl_free_data on the "UVLTemp" block.
C2_BufferReleasedAfterElf ==
    (pc = "done" /\ elfReturned) => freeCalled

C4_WitnessResolverFailed ==
    pc = "done" /\ ret = -1 /\ resolveFailed /\ impIdx + 1 < nImports

\* C5 as stated: +k then -k restores the seven pointers and every table
\* element the two calls dereferenced.
C5_RoundTripRestoresAll ==
    rl.phase = "done" => (rl.imp = rl.imp0 /\ rl.mem = rl.mem0)

\* C5 as amended: +k then -k restores the seven pointers; the table
\* elements are restored when k is 0 modulo the pointer width or all three
\* counts are 0.
C5_RoundTripRestoresPointers ==
    rl.phase = "done"
        => /\ rl.imp = rl.imp0
           /\ (rl.k % RMod = 0
               \/ (rl.imp.num_functions = 0 /\ rl.imp.num_vars = 0
                   /\ rl.imp.num_tls_vars = 0))
                => rl.mem = rl.mem0

\* C5's case: both calls ran with a non-zero addend on a descriptor with
\* function entries, and an element is not what it was.
C5_Witness ==
    /\ rl.phase = "done" /\ rl.k # 0 /\ rl.imp.num_functions > 0
    /\ rl.imp = rl.imp0 /\ rl.mem # rl.mem0

\* Every loadable segment has been allocated, copied and zero-filled.
AllSegmentsLoaded ==
    /\ segsDone = Cardinality(Loadable)
    /\ Len(regions) = Cardinality(Loadable)
    /\ segIdx > Len(image.ph)

\* C6: the header check precedes every table read; the reclaimer and all its
\* unloads precede the first segment allocation; all loadable segments are
\* loaded before the first dependency-load or resolver call; all resolver
\* calls precede the first export descriptor scan.
C6_StageOrder ==
    [][ /\ tableReads' > tableReads => hdrChecked
        /\ segAllocs' > segAllocs => (reclaimDone /\ unloads' = unloads)
        /\ unloads' > unloads => (segAllocs = 0 /\ ~reclaimDone)
        /\ (depCalls' > depCalls \/ resolveCalls' > resolveCalls)
             => (AllSegmentsLoaded /\ exportScans = 0)
        /\ exportScans' > exportScans
             => (impIdx = nImports /\ resolveCalls' = resolveCalls
                 /\ depCalls' = depCalls)
      ]_vars

\* C6's case: a successful load with an unload, two segments, a resolver
\* call and an export scan.
C6_Witness ==
    /\ pc = "done" /\ ret = 0 /\ unloads > 0 /\ segsDone > 1
    /\ resolveCalls > 0 /\ exportScans > 0

\* C7: memory is unlocked exactly during the copy/zero step of a segment
\* (so it is locked at every allocation call, resolver call and return),
\* and unlock and lock calls alternate, unlock first.
C7_LockScoped ==
    /\ locked <=> pc \notin {"seg_copy", "seg_zero", "seg_lock"}
    /\ unlockCalls = lockCalls + (IF locked THEN 0 ELSE 1)

\* C7's case: a load that copied two segments has returned.
C7_Witness ==
    pc = "done" /\ lockCalls >= 2 /\ elfReturned

\* C8 as stated: after a close failure the acquirer has succeeded and handed
\* back the buffer.
C8_CloseFailureIgnored ==
    closeFailed => (lfRet = 0 /\ dataSet)

\* C8 as amended: after a close failure the acquirer returns -1 without
\* storing *data (with *size already stored), and uvl_load_exe fails without
\* dispatching.
C8_CloseFailureFatal ==
    closeFailed
        => /\ lfRet = -1 /\ ~dataSet /\ size \in {"short", "full"}
           /\ pc = "done" /\ ret = -1 /\ ~elfInvoked

\* C8's case: the read succeeded and the close failed.
C8_Witness ==
    closeFailed /\ size = "short" /\ pc = "done"

\* C9: the base added to stub_top and ent_top is the virtual address of the
\* first program-header entry the segment loader does not skip.
C9_BaseIsFirstLoadable ==
    (pc \in {"imp_loop", "imp_resolve", "exp_init", "exp_loop"} /\ Loadable # {})
        => base = image.ph[CHOOSE i \in Loadable : \A j \in Loadable : i <= j].p_vaddr

\* C10: when the copy/zero step of a segment with p_filesz <= p_memsz is
\* over, the block granted for it has p_memsz rounded up to the alignment as
\* its length, holds the file's bytes in [0, p_filesz) and zeros in
\* [p_filesz, p_memsz), and no byte was written outside it.
C10_SegmentRoundTrip ==
    (pc = "seg_lock" /\ image.ph[segIdx].p_filesz <= image.ph[segIdx].p_memsz)
        => LET p == image.ph[segIdx]
               r == regions[Len(regions)]
           IN /\ r.len = ((p.p_memsz + Align - 1) \div Align) * Align
              /\ \A b \in 0..(p.p_filesz - 1) :
                    b < r.len /\ r.bytes[b] = ImageByte(p.p_offset + b)
              /\ \A b \in p.p_filesz..(p.p_memsz - 1) :
                    b < r.len /\ r.bytes[b] = 0
              /\ ~stray

====
